---- MODULE Spec2Model ----
(***************************************************************************)
(* Room timer synchronization engine of study-room: the socket timer       *)
(* handlers (start, pause, reset, change mode, completed) operating on the *)
(* timerState of a Room document and broadcasting to the room.             *)
(*                                                                         *)
(* Every handler is an async function: it awaits Room.findById, runs its   *)
(* validation and in-memory mutation synchronously, awaits room.save(),    *)
(* and then emits to the room (or, when something threw, emits an error to *)
(* the requesting socket from its catch block).  The awaits are the points *)
(* where another handler may run, so each request is modelled as           *)
(*   handleX      findById resolves, validation, in-memory mutation        *)
(*   RoomSave     the save reaches the store (or RoomSaveThrows, which     *)
(*                includes the catch block)                                *)
(*   EmitToRoom   the code after the await                                  *)
(***************************************************************************)
EXTENDS Integers, Sequences, FiniteSets

(* ------------------------------ bounds --------------------------------- *)
\* the clock runs from 0 to MaxNow milliseconds in steps of TickMs
MaxNow == 1500
TickMs == 1500
\* number of requests served in one behaviour
MaxRequests == 2
\* the room has served InitCycle focus intervals before the run
InitCycle == 2
\* client-suggested timeRemaining values range over -1 .. MaxClientTime
MaxClientTime == 2
\* custom focus duration of the room with custom settings (seconds)
CustomFocus == 1
\* reconciliation is observed for stored times 0 .. MaxStored, every
\* ObserveMs milliseconds up to MaxObserve, over up to MaxAdvance periods
MaxStored == 4
ObserveMs == 500
MaxObserve == 4000
MaxAdvance == 3
\* the completion protocol is followed for MaxIntervals focus intervals
MaxIntervals == 8

(* --------------------------- JavaScript values ------------------------- *)
Num(n) == [t |-> "number", v |-> n]
Undefined == [t |-> "undefined", v |-> 0]
NaN == [t |-> "NaN", v |-> 0]

\* a nullable Date: null, or the Date holding a number of milliseconds
Null == <<>>
Date(ms) == <<ms>>
GetTime(d) == d[1]

\* identities: an ObjectId (room.host) or a string (socket.user.id)
ObjectId(s) == [kind |-> "ObjectId", hex |-> s]
Str(s) == [kind |-> "string", hex |-> s]
ToString(x) == x.hex

\* truthiness of a number-or-undefined value
Truthy(x) == x.t = "number" /\ x.v # 0
\* a || b
Or(a, b) == IF Truthy(a) THEN a ELSE b
ToNumber(x) == IF x.t = "undefined" THEN NaN ELSE x
MathMin(a, b) ==
  LET x == ToNumber(a)
      y == ToNumber(b)
  IN IF x.t = "NaN" \/ y.t = "NaN" THEN NaN
     ELSE IF x.v <= y.v THEN x ELSE y
MathMax(a, b) ==
  LET x == ToNumber(a)
      y == ToNumber(b)
  IN IF x.t = "NaN" \/ y.t = "NaN" THEN NaN
     ELSE IF x.v >= y.v THEN x ELSE y

(* ------------------------------ the room ------------------------------- *)
Handlers == {"h1", "h2"}
HostId == "u1"
GuestId == "u2"
Users == {Str(HostId), Str(GuestId)}
RoomId == "r1"
RoomIds == {RoomId, "r0"}
\* the modes of a timerState, and the strings a client may send as a mode
Modes == {"focus", "shortBreak", "longBreak"}
RequestModes == Modes \cup {"nap"}
validModesAnyString == RequestModes
validModes == {"focus", "shortBreak", "longBreak"}
ClientTimes == {Undefined} \cup {Num(n) : n \in -1..MaxClientTime}
NoSettings == [set |-> FALSE]
CustomSettings ==
  [set |-> TRUE, focusDuration |-> Num(CustomFocus),
   shortBreakDuration |-> Undefined, longBreakDuration |-> Num(1)]
SettingsChoices == {NoSettings, CustomSettings}
NoRoom == [exists |-> FALSE]

VARIABLES now, db, timerSettings, pc, req, loaded, mem, emitted, errors, nreq

vars == <<now, db, timerSettings, pc, req, loaded, mem, emitted, errors, nreq>>

\* room.timerSettings?.<field>
Setting(settings, field) ==
  IF settings.set THEN settings[field] ELSE Undefined

timeByMode(settings) ==
  [focus |-> Or(Setting(settings, "focusDuration"), Num(25 * 60)),
   shortBreak |-> Or(Setting(settings, "shortBreakDuration"), Num(5 * 60)),
   longBreak |-> Or(Setting(settings, "longBreakDuration"), Num(15 * 60))]

\* the remaining time computed without Math.max(0, ...)
calculateCurrentTimerStateUnclamped(timerState, at) ==
  IF ~timerState.isRunning \/ timerState.startedAt = Null
  THEN timerState
  ELSE LET elapsedSeconds == (at - GetTime(timerState.startedAt)) \div 1000
       IN [timerState EXCEPT !.timeRemaining = @ - elapsedSeconds]

calculateCurrentTimerState(timerState, at) ==
  IF ~timerState.isRunning \/ timerState.startedAt = Null
  THEN timerState
  ELSE LET elapsedSeconds == (at - GetTime(timerState.startedAt)) \div 1000
           currentTimeRemaining ==
             MathMax(Num(0), Num(timerState.timeRemaining - elapsedSeconds))
       IN [timerState EXCEPT !.timeRemaining = currentTimeRemaining.v]

isUserHostSelfCompare(room, userId) == ToString(room.host) = ToString(room.host)

isUserHost(room, userId) == ToString(room.host) = ToString(userId)

\* Room.findById
FindById(roomId) ==
  IF roomId = RoomId
  THEN [exists |-> TRUE, host |-> ObjectId(HostId), timerState |-> db,
        timerSettings |-> timerSettings]
  ELSE NoRoom

(* ----------------- the in-memory mutation of each handler -------------- *)
\* each yields the document after the assignments: its timerState, whether
\* an assignment failed to cast to the schema type, and (for completion)
\* the suggested next mode
Doc(ts, bad, sugg) ==
  [timerState |-> ts, castError |-> bad, suggestedNextMode |-> sugg]

\* the elapsed time of a running timer carried over into the restart
StartMutationKeepsElapsed(ts, at) ==
  Doc([ts EXCEPT !.isRunning = TRUE, !.startedAt = Date(at),
                 !.timeRemaining = calculateCurrentTimerState(ts, at).timeRemaining],
      FALSE, "none")

\* the time spent paused counted as elapsed
StartMutationCountsPause(ts, at) ==
  LET paused == IF ~ts.isRunning /\ ts.pausedAt # Null
                THEN (at - GetTime(ts.pausedAt)) \div 1000 ELSE 0
  IN Doc([ts EXCEPT !.isRunning = TRUE, !.startedAt = Date(at),
                    !.timeRemaining =
                      MathMax(Num(0), Num(ts.timeRemaining - paused)).v],
         FALSE, "none")

StartMutation(ts, at) ==
  Doc([ts EXCEPT !.isRunning = TRUE, !.startedAt = Date(at)], FALSE, "none")

PauseMutationKeepsStartedAt(ts, timeRemaining, at) ==
  LET currentTimeRemaining ==
        IF ts.isRunning /\ ts.startedAt # Null
        THEN MathMin(Or(timeRemaining, Num(ts.timeRemaining)),
                     Num(calculateCurrentTimerState(ts, at).timeRemaining))
        ELSE timeRemaining
      stored == MathMax(Num(0), currentTimeRemaining)
  IN Doc([ts EXCEPT !.isRunning = FALSE,
                    !.timeRemaining = IF stored.t = "number" THEN stored.v
                                      ELSE @,
                    !.pausedAt = Date(at)],
         stored.t # "number", "none")

\* the result stored without Math.max(0, ...)
PauseMutationNoFloorAtZero(ts, timeRemaining, at) ==
  LET currentTimeRemaining ==
        IF ts.isRunning /\ ts.startedAt # Null
        THEN MathMin(Or(timeRemaining, Num(ts.timeRemaining)),
                     Num(calculateCurrentTimerState(ts, at).timeRemaining))
        ELSE timeRemaining
      stored == ToNumber(currentTimeRemaining)
  IN Doc([ts EXCEPT !.isRunning = FALSE,
                    !.timeRemaining = IF stored.t = "number" THEN stored.v
                                      ELSE @,
                    !.pausedAt = Date(at),
                    !.startedAt = Null],
         stored.t # "number", "none")

PauseMutation(ts, timeRemaining, at) ==
  LET currentTimeRemaining ==
        IF ts.isRunning /\ ts.startedAt # Null
        THEN MathMin(Or(timeRemaining, Num(ts.timeRemaining)),
                     Num(calculateCurrentTimerState(ts, at).timeRemaining))
        ELSE timeRemaining
      stored == MathMax(Num(0), currentTimeRemaining)
  IN Doc([ts EXCEPT !.isRunning = FALSE,
                    !.timeRemaining = IF stored.t = "number" THEN stored.v
                                      ELSE @,
                    !.pausedAt = Date(at),
                    !.startedAt = Null],
         stored.t # "number", "none")

ResetMutationFocusOnly(ts, settings) ==
  Doc([ts EXCEPT !.timeRemaining = timeByMode(settings).focus.v,
                 !.isRunning = FALSE,
                 !.startedAt = Null,
                 !.pausedAt = Null], FALSE, "none")

ResetMutation(ts, settings) ==
  LET byMode == timeByMode(settings)
      t == IF ts.mode \in DOMAIN byMode
           THEN Or(byMode[ts.mode], byMode.focus) ELSE byMode.focus
  IN Doc([ts EXCEPT !.timeRemaining = t.v,
                    !.isRunning = FALSE,
                    !.startedAt = Null,
                    !.pausedAt = Null], FALSE, "none")

\* the cycle counted when the room leaves focus, tested on the mode before
\* the assignment
ChangeModeMutationCountsLeavingFocus(ts, settings, mode) ==
  LET byMode == timeByMode(settings)
      t == IF mode \in DOMAIN byMode THEN byMode[mode] ELSE Undefined
      ts1 == [ts EXCEPT !.mode = mode,
                        !.isRunning = FALSE,
                        !.startedAt = Null,
                        !.pausedAt = Null,
                        !.timeRemaining = IF t.t = "number" THEN t.v ELSE @]
      ts2 == IF mode # "focus" /\ ts.mode = "focus"
             THEN [ts1 EXCEPT !.cycleCount = @ + 1] ELSE ts1
  IN Doc(ts2, mode \notin Modes \/ t.t # "number", "none")

ChangeModeMutation(ts, settings, mode) ==
  LET byMode == timeByMode(settings)
      \* timeByMode[mode] of a key that is not there is undefined
      t == IF mode \in DOMAIN byMode THEN byMode[mode] ELSE Undefined
      ts1 == [ts EXCEPT !.mode = mode,
                        !.isRunning = FALSE,
                        !.startedAt = Null,
                        !.pausedAt = Null,
                        !.timeRemaining = IF t.t = "number" THEN t.v ELSE @]
      \* the test reads room.timerState.mode after it was assigned
      ts2 == IF mode # "focus" /\ ts1.mode = "focus"
             THEN [ts1 EXCEPT !.cycleCount = @ + 1] ELSE ts1
  IN Doc(ts2, mode \notin Modes \/ t.t # "number", "none")

CompletedMutationIncrementFirst(ts) ==
  LET ts1 == [ts EXCEPT !.isRunning = FALSE,
                        !.timeRemaining = 0,
                        !.startedAt = Null,
                        !.pausedAt = Null]
      ts2 == [ts1 EXCEPT !.cycleCount = @ + 1]
  IN IF ts1.mode = "focus"
     THEN Doc(ts2, FALSE,
              IF ts2.cycleCount % 4 = 3 THEN "longBreak" ELSE "shortBreak")
     ELSE Doc(ts1, FALSE, "focus")

\* the completion moving the room on to the suggested mode
CompletedMutationAdvancesMode(ts) ==
  LET ts1 == [ts EXCEPT !.isRunning = FALSE,
                        !.timeRemaining = 0,
                        !.startedAt = Null,
                        !.pausedAt = Null]
      sugg == IF ts1.mode # "focus" THEN "focus"
              ELSE IF ts1.cycleCount % 4 = 3 THEN "longBreak"
              ELSE "shortBreak"
  IN IF ts1.mode = "focus"
     THEN Doc([ts1 EXCEPT !.cycleCount = @ + 1, !.mode = sugg], FALSE, sugg)
     ELSE Doc([ts1 EXCEPT !.mode = sugg], FALSE, sugg)

CompletedMutation(ts) ==
  LET ts1 == [ts EXCEPT !.isRunning = FALSE,
                        !.timeRemaining = 0,
                        !.startedAt = Null,
                        !.pausedAt = Null]
  IN IF ts1.mode = "focus"
     THEN Doc([ts1 EXCEPT !.cycleCount = @ + 1], FALSE,
              IF ts1.cycleCount % 4 = 3 THEN "longBreak" ELSE "shortBreak")
     ELSE Doc(ts1, FALSE, "focus")

Mutation(ts, settings, r) ==
  CASE r.op = "start" -> StartMutation(ts, r.at)
    [] r.op = "pause" -> PauseMutation(ts, r.timeRemaining, r.at)
    [] r.op = "reset" -> ResetMutation(ts, settings)
    [] r.op = "changeMode" -> ChangeModeMutation(ts, settings, r.mode)
    [] r.op = "completed" -> CompletedMutation(ts)

(* -------------------------------- Init --------------------------------- *)
Request(op, userId, roomId, mode, timeRemaining) ==
  [op |-> op, userId |-> userId, roomId |-> roomId, mode |-> mode,
   timeRemaining |-> timeRemaining, at |-> now]

NoRequest ==
  [op |-> "none", userId |-> Str(GuestId), roomId |-> "r0", mode |-> "focus",
   timeRemaining |-> Undefined, at |-> 0]

InitialTimerState(settings, cycles) ==
  [mode |-> "focus", timeRemaining |-> timeByMode(settings).focus.v,
   isRunning |-> FALSE, startedAt |-> Null, pausedAt |-> Null,
   cycleCount |-> cycles]

NoDoc == Doc(InitialTimerState(NoSettings, 0), FALSE, "none")

\* the step emitted nothing to the room / to a socket
NoEvent == [event |-> "none"]
NoError == [message |-> "none"]

Init ==
  /\ now = 0
  /\ timerSettings \in SettingsChoices
  /\ db = InitialTimerState(timerSettings, InitCycle)
  /\ pc = [h \in Handlers |-> "idle"]
  /\ req = [h \in Handlers |-> NoRequest]
  /\ loaded = [h \in Handlers |-> NoRoom]
  /\ mem = [h \in Handlers |-> NoDoc]
  /\ emitted = NoEvent
  /\ errors = NoError
  /\ nreq = 0

(* ------------------------------- actions ------------------------------- *)
\* emitted is the emission to the room made by the latest step and errors
\* the 'error' emission to a socket made by the latest step
Silent == emitted' = NoEvent /\ errors' = NoError

\* an invocation h can serve the next request; invocations are
\* interchangeable, so the first idle one takes it
CanServe(h) ==
  /\ pc[h] = "idle"
  /\ nreq < MaxRequests
  /\ h = "h1" \/ pc["h1"] # "idle"

\* socket.emit('error', { message }); return
SocketError(h, r, room, message) ==
  /\ errors' = [to |-> r.userId, message |-> message]
  /\ emitted' = NoEvent
  /\ nreq' = nreq + 1
  /\ UNCHANGED <<now, db, timerSettings, pc, req, loaded, mem>>

\* the assignments up to the call of room.save()
AwaitSave(h, r, room) ==
  /\ pc' = [pc EXCEPT ![h] = "saving"]
  /\ req' = [req EXCEPT ![h] = r]
  /\ loaded' = [loaded EXCEPT ![h] = room]
  /\ mem' = [mem EXCEPT ![h] = Mutation(room.timerState, room.timerSettings, r)]
  /\ nreq' = nreq + 1
  /\ Silent
  /\ UNCHANGED <<now, db, timerSettings>>

\* the broadcast placed before the awaited save
handleStartTimerEmitsBeforeSave(h, userId, roomId) ==
  /\ CanServe(h)
  /\ LET r == Request("start", userId, roomId, "focus", Undefined)
         room == FindById(roomId)
     IN IF ~room.exists THEN SocketError(h, r, room, "Room not found")
        ELSE IF ~isUserHost(room, userId)
        THEN SocketError(h, r, room, "Only host can control timer")
        ELSE /\ pc' = [pc EXCEPT ![h] = "saving"]
             /\ req' = [req EXCEPT ![h] = r]
             /\ loaded' = [loaded EXCEPT ![h] = room]
             /\ mem' = [mem EXCEPT ![h] = Mutation(room.timerState,
                                                   room.timerSettings, r)]
             /\ nreq' = nreq + 1
             /\ emitted' = [room |-> roomId, event |-> "timer-started",
                            payload |-> mem'[h].timerState]
             /\ errors' = NoError
             /\ UNCHANGED <<now, db, timerSettings>>

handleStartTimer(h, userId, roomId) ==
  /\ CanServe(h)
  /\ LET r == Request("start", userId, roomId, "focus", Undefined)
         room == FindById(roomId)
     IN IF ~room.exists THEN SocketError(h, r, room, "Room not found")
        ELSE IF ~isUserHost(room, userId)
        THEN SocketError(h, r, room, "Only host can control timer")
        ELSE AwaitSave(h, r, room)

handlePauseTimer(h, userId, roomId, timeRemaining) ==
  /\ CanServe(h)
  /\ LET r == Request("pause", userId, roomId, "focus", timeRemaining)
         room == FindById(roomId)
     IN IF ~room.exists THEN SocketError(h, r, room, "Room not found")
        ELSE IF ~isUserHost(room, userId)
        THEN SocketError(h, r, room, "Only host can control timer")
        ELSE AwaitSave(h, r, room)

handleResetTimer(h, userId, roomId) ==
  /\ CanServe(h)
  /\ LET r == Request("reset", userId, roomId, "focus", Undefined)
         room == FindById(roomId)
     IN IF ~room.exists THEN SocketError(h, r, room, "Room not found")
        ELSE IF ~isUserHost(room, userId)
        THEN SocketError(h, r, room, "Only host can control timer")
        ELSE AwaitSave(h, r, room)

\* the mode validated before the host check
handleChangeTimerModeModeFirst(h, userId, roomId, mode) ==
  /\ CanServe(h)
  /\ LET r == Request("changeMode", userId, roomId, mode, Undefined)
         room == FindById(roomId)
     IN IF ~room.exists THEN SocketError(h, r, room, "Room not found")
        ELSE IF mode \notin validModes
        THEN SocketError(h, r, room, "Invalid timer mode")
        ELSE IF ~isUserHost(room, userId)
        THEN SocketError(h, r, room, "Only host can control timer")
        ELSE AwaitSave(h, r, room)

handleChangeTimerMode(h, userId, roomId, mode) ==
  /\ CanServe(h)
  /\ LET r == Request("changeMode", userId, roomId, mode, Undefined)
         room == FindById(roomId)
     IN IF ~room.exists THEN SocketError(h, r, room, "Room not found")
        ELSE IF ~isUserHost(room, userId)
        THEN SocketError(h, r, room, "Only host can control timer")
        ELSE IF mode \notin validModes
        THEN SocketError(h, r, room, "Invalid timer mode")
        ELSE AwaitSave(h, r, room)

handleTimerCompleted(h, userId, roomId) ==
  /\ CanServe(h)
  /\ LET r == Request("completed", userId, roomId, "focus", Undefined)
         room == FindById(roomId)
     IN IF ~room.exists THEN SocketError(h, r, room, "Room not found")
        ELSE IF ~isUserHost(room, userId)
        THEN SocketError(h, r, room, "Only host can control timer")
        ELSE AwaitSave(h, r, room)

\* room.save() resolves: the nested timerState is persisted as a whole
RoomSave(h) ==
  /\ pc[h] = "saving"
  /\ ~mem[h].castError
  /\ db' = mem[h].timerState
  /\ pc' = [pc EXCEPT ![h] = "saved"]
  /\ Silent
  /\ UNCHANGED <<now, timerSettings, req, loaded, mem, nreq>>

\* the invocation returns
Return(h) ==
  /\ pc' = [pc EXCEPT ![h] = "idle"]
  /\ req' = [req EXCEPT ![h] = NoRequest]
  /\ loaded' = [loaded EXCEPT ![h] = NoRoom]
  /\ mem' = [mem EXCEPT ![h] = NoDoc]

EventName(op) ==
  CASE op = "start" -> "timer-started"
    [] op = "pause" -> "timer-paused"
    [] op = "reset" -> "timer-reset"
    [] op = "changeMode" -> "timer-mode-changed"
    [] op = "completed" -> "timer-completed"

Payload(op, doc) ==
  IF op = "completed"
  THEN [completedMode |-> doc.timerState.mode,
        suggestedNextMode |-> doc.suggestedNextMode,
        cycleCount |-> doc.timerState.cycleCount,
        timerState |-> doc.timerState]
  ELSE doc.timerState

\* the room sent the reconciled state instead of the saved document
EmitToRoomReconciled(h) ==
  /\ pc[h] = "saved"
  /\ emitted' = [room |-> req[h].roomId, event |-> EventName(req[h].op),
                 payload |->
                   Payload(req[h].op,
                           [mem[h] EXCEPT !.timerState =
                              calculateCurrentTimerState(@, now)])]
  /\ errors' = NoError
  /\ Return(h)
  /\ UNCHANGED <<now, db, timerSettings, nreq>>

\* io.to(roomId).emit(event, payload), the code after the awaited save
EmitToRoom(h) ==
  /\ pc[h] = "saved"
  /\ emitted' = [room |-> req[h].roomId, event |-> EventName(req[h].op),
                 payload |-> Payload(req[h].op, mem[h])]
  /\ errors' = NoError
  /\ Return(h)
  /\ UNCHANGED <<now, db, timerSettings, nreq>>

FailureMessage(op) ==
  CASE op = "start" -> "Failed to start timer"
    [] op = "pause" -> "Failed to pause timer"
    [] op = "reset" -> "Failed to reset timer"
    [] op = "changeMode" -> "Failed to change timer mode"
    [] op = "completed" -> "Failed to complete timer"

\* room.save() rejects (validation of the document or the store failed):
\* nothing is persisted and the catch block of the handler runs
RoomSaveThrows(h) ==
  /\ pc[h] = "saving"
  /\ errors' = [to |-> req[h].userId, message |-> FailureMessage(req[h].op)]
  /\ emitted' = NoEvent
  /\ Return(h)
  /\ UNCHANGED <<now, db, timerSettings, nreq>>

\* wall-clock time passes
Tick ==
  /\ now < MaxNow
  /\ now' = now + TickMs
  /\ Silent
  /\ UNCHANGED <<db, timerSettings, pc, req, loaded, mem, nreq>>

Next ==
  \/ \E h \in Handlers, u \in Users, r \in RoomIds : handleStartTimer(h, u, r)
  \/ \E h \in Handlers, u \in Users, r \in RoomIds, t \in ClientTimes :
       handlePauseTimer(h, u, r, t)
  \/ \E h \in Handlers, u \in Users, r \in RoomIds : handleResetTimer(h, u, r)
  \/ \E h \in Handlers, u \in Users, r \in RoomIds, m \in RequestModes :
       handleChangeTimerMode(h, u, r, m)
  \/ \E h \in Handlers, u \in Users, r \in RoomIds :
       handleTimerCompleted(h, u, r)
  \/ \E h \in Handlers : RoomSave(h)
  \/ \E h \in Handlers : RoomSaveThrows(h)
  \/ \E h \in Handlers : EmitToRoom(h)
  \/ Tick

Spec == Init /\ [][Next]_vars

(* ------------- reconciliation observed on a stored timerState ---------- *)
\* the stored timerState is fixed; a presentation layer calls
\* calculateCurrentTimerState on it at later and later instants, and
\* mem["h1"] holds what the latest call returned
StoredTimerState(t, running, startedAt) ==
  [mode |-> "focus", timeRemaining |-> t, isRunning |-> running,
   startedAt |-> startedAt, pausedAt |-> Null, cycleCount |-> 0]

Reconciled(ts, at) == Doc(calculateCurrentTimerState(ts, at), FALSE, "none")

InitReconcile ==
  /\ timerSettings = NoSettings
  /\ \E t \in 0..MaxStored, s \in {Null, Date(0), Date(ObserveMs)} :
       /\ db = StoredTimerState(t, s # Null, s)
       /\ now = IF s = Null THEN 0 ELSE GetTime(s)
  /\ pc = [h \in Handlers |-> "idle"]
  /\ req = [h \in Handlers |-> NoRequest]
  /\ loaded = [h \in Handlers |-> NoRoom]
  /\ mem = [h \in Handlers |-> IF h = "h1" THEN Reconciled(db, now) ELSE NoDoc]
  /\ emitted = NoEvent
  /\ errors = NoError
  /\ nreq = 0

\* the state is reconciled again k periods later
Observe(k) ==
  /\ now + k * ObserveMs <= MaxObserve
  /\ now' = now + k * ObserveMs
  /\ mem' = [mem EXCEPT !["h1"] = Reconciled(db, now')]
  /\ UNCHANGED <<db, timerSettings, pc, req, loaded, emitted, errors, nreq>>

NextReconcile == \E k \in 1..MaxAdvance : Observe(k)

SpecReconcile == InitReconcile /\ [][NextReconcile]_vars

(* ------------------ the two-phase completion protocol ------------------ *)
\* the host's client, alone in a new room, repeats: Complete, Change Mode to
\* the suggested mode; every request is served to its end before the next
InitProtocol ==
  /\ now = 0
  /\ timerSettings \in SettingsChoices
  /\ db = InitialTimerState(timerSettings, 0)
  /\ pc = [h \in Handlers |-> "idle"]
  /\ req = [h \in Handlers |-> NoRequest]
  /\ loaded = [h \in Handlers |-> NoRoom]
  /\ mem = [h \in Handlers |-> NoDoc]
  /\ emitted = NoEvent
  /\ errors = NoError
  /\ nreq = 0

\* handleTimerCompleted for the host on the room, at the start and after
\* every change of mode
ProtocolComplete ==
  /\ pc["h1"] = "idle"
  /\ nreq < 4 * MaxIntervals
  /\ emitted.event \in {"none", "timer-mode-changed"}
  /\ LET r == Request("completed", Str(HostId), RoomId, "focus", Undefined)
         room == FindById(RoomId)
     IN /\ room.exists
        /\ isUserHost(room, Str(HostId))
        /\ AwaitSave("h1", r, room)

\* handleChangeTimerMode for the host with the mode the completion suggested
ProtocolChangeMode ==
  /\ pc["h1"] = "idle"
  /\ emitted.event = "timer-completed"
  /\ LET mode == emitted.payload.suggestedNextMode
         r == Request("changeMode", Str(HostId), RoomId, mode, Undefined)
         room == FindById(RoomId)
     IN /\ room.exists
        /\ isUserHost(room, Str(HostId))
        /\ mode \in validModes
        /\ AwaitSave("h1", r, room)

ProtocolSave == RoomSave("h1")

ProtocolEmit == EmitToRoom("h1")

NextProtocol ==
  \/ ProtocolComplete
  \/ ProtocolChangeMode
  \/ ProtocolSave
  \/ ProtocolEmit

SpecProtocol == InitProtocol /\ [][NextProtocol]_vars

(* ======================= properties of the engine ====================== *)
Active(h) == pc[h] \in {"saving", "saved"}
Before(h) == loaded[h].timerState
After(h) == mem[h].timerState
Host == Str(HostId)
Guest == Str(GuestId)
NotHostError(u) == [to |-> u, message |-> "Only host can control timer"]
Max(a, b) == IF a >= b THEN a ELSE b
Min(a, b) == IF a <= b THEN a ELSE b

\* C1: in every reachable persisted timerState, isRunning is true if and
\* only if startedAt is non-null.
C1_RunningIffStartedAt == db.isRunning <=> (db.startedAt # Null)

\* a timer that was paused and started again is persisted as running
C1_Witness == db.isRunning /\ db.startedAt # Null /\ db.pausedAt # Null

\* h serves a request of user u on room r, of any of the five operations
AnyRequest(h, u, r) ==
  \/ handleStartTimer(h, u, r)
  \/ \E t \in ClientTimes : handlePauseTimer(h, u, r, t)
  \/ handleResetTimer(h, u, r)
  \/ \E m \in RequestModes : handleChangeTimerMode(h, u, r, m)
  \/ handleTimerCompleted(h, u, r)

\* C2: a request of any of the five operations by a user who is not the
\* host of the room leaves the persisted timerState unchanged, emits nothing
\* to the room and emits the not-host error to the requester only.
C2_NonHostRejected ==
  [][\A h \in Handlers :
       AnyRequest(h, Guest, RoomId) =>
         /\ db' = db
         /\ emitted' = NoEvent
         /\ errors' = NotHostError(Guest)
         /\ pc' = pc]_vars

\* the guest has just been refused
C2_Witness == errors = NotHostError(Guest) /\ emitted = NoEvent

\* C3: a host Change Mode request with a valid mode increments cycleCount
\* by exactly 1 if and only if the requested mode is not focus and the mode
\* before the request was focus; otherwise cycleCount is unchanged.
C3_CycleCountOnChangeMode ==
  \A h \in Handlers :
    (Active(h) /\ req[h].op = "changeMode") =>
      After(h).cycleCount =
        Before(h).cycleCount +
          (IF req[h].mode # "focus" /\ Before(h).mode = "focus" THEN 1 ELSE 0)

\* C4 as stated: a host Complete request in focus mode increments cycleCount
\* and suggests longBreak if the updated cycleCount mod 4 is 3, otherwise
\* shortBreak; in a break mode it suggests focus and leaves cycleCount.
C4_SuggestOnUpdatedCount ==
  \A h \in Handlers :
    (Active(h) /\ req[h].op = "completed") =>
      IF Before(h).mode = "focus"
      THEN /\ After(h).cycleCount = Before(h).cycleCount + 1
           /\ mem[h].suggestedNextMode =
                (IF After(h).cycleCount % 4 = 3 THEN "longBreak"
                 ELSE "shortBreak")
      ELSE /\ After(h).cycleCount = Before(h).cycleCount
           /\ mem[h].suggestedNextMode = "focus"

\* C4 amended: a host Complete request in focus mode increments cycleCount
\* and suggests longBreak if the cycleCount before the increment mod 4 is 3
\* (the updated count is a multiple of 4), otherwise shortBreak; in a break
\* mode it suggests focus and leaves cycleCount unchanged; the broadcast
\* carries that suggestion and the updated count.
C4_SuggestOnPreviousCount ==
  /\ \A h \in Handlers :
       (Active(h) /\ req[h].op = "completed") =>
         IF Before(h).mode = "focus"
         THEN /\ After(h).cycleCount = Before(h).cycleCount + 1
              /\ mem[h].suggestedNextMode =
                   (IF Before(h).cycleCount % 4 = 3 THEN "longBreak"
                    ELSE "shortBreak")
         ELSE /\ After(h).cycleCount = Before(h).cycleCount
              /\ mem[h].suggestedNextMode = "focus"
  /\ emitted.event = "timer-completed" =>
       emitted.payload.suggestedNextMode =
         (IF emitted.payload.completedMode # "focus" THEN "focus"
          ELSE IF emitted.payload.cycleCount % 4 = 0 THEN "longBreak"
          ELSE "shortBreak")

\* the fourth focus interval completes and longBreak is suggested
C4_Witness ==
  \E h \in Handlers :
    /\ pc[h] = "saved" /\ req[h].op = "completed"
    /\ Before(h).mode = "focus" /\ Before(h).cycleCount = 3
    /\ mem[h].suggestedNextMode = "longBreak"

\* C5: a host Pause request on a running timer results in isRunning = false,
\* startedAt = null and timeRemaining = max(0, min(c, r)), r the reconciled
\* remaining time and c the client-suggested value when one is supplied
\* (0 included), the stored timeRemaining otherwise.
C5_PauseTakesMinimum ==
  \A h \in Handlers :
    (Active(h) /\ req[h].op = "pause" /\ Before(h).isRunning) =>
      LET elapsed == (req[h].at - GetTime(Before(h).startedAt)) \div 1000
          r == Max(0, Before(h).timeRemaining - elapsed)
          c == IF req[h].timeRemaining.t = "number"
               THEN req[h].timeRemaining.v ELSE Before(h).timeRemaining
      IN /\ ~After(h).isRunning
         /\ After(h).startedAt = Null
         /\ After(h).timeRemaining = Max(0, Min(c, r))

\* the operation of request r run on its own on timerState ts
RunAlone(ts, r) ==
  LET doc == Mutation(ts, timerSettings, r)
  IN IF doc.castError THEN ts ELSE doc.timerState

\* C6: two host requests that overlap on one room leave the persisted
\* timerState that running the two operations one after the other, in one
\* of the two orders, would leave.
C6_OverlapIsSerial ==
  [][\A h, g \in Handlers :
       (/\ h # g
        /\ RoomSave(h)
        /\ pc[g] = "saved"
        /\ loaded[g] = loaded[h]
        /\ db = After(g)) =>
         db' \in {RunAlone(RunAlone(Before(h), req[g]), req[h]),
                  RunAlone(RunAlone(Before(h), req[h]), req[g])}]_vars

FailureMessages ==
  {"Failed to start timer", "Failed to pause timer", "Failed to reset timer",
   "Failed to change timer mode", "Failed to complete timer"}

\* C7: when the save of a request fails, the persisted timerState is the one
\* persisted before, nothing is emitted to the room and the requester gets
\* an error; the mutation made in memory before the save reaches neither the
\* store nor the room.
C7_FailedSaveLeavesNoTrace ==
  [][\A h \in Handlers :
       /\ RoomSaveThrows(h) =>
            /\ db' = db
            /\ emitted' = NoEvent
            /\ errors'.to = req[h].userId
            /\ errors'.message \in FailureMessages
       /\ (pc[h] = "idle" /\ pc'[h] = "saving") =>
            /\ db' = db
            /\ emitted' = NoEvent]_vars

\* the save of a host request has just failed
C7_Witness ==
  /\ errors.message \in FailureMessages /\ errors.to = Host
  /\ emitted = NoEvent

\* C8: a host Change Mode request whose mode is not focus, shortBreak or
\* longBreak emits the invalid-mode error to the requester, leaves the
\* persisted timerState unchanged and emits nothing to the room.
C8_InvalidModeRejected ==
  [][\A h \in Handlers, m \in RequestModes \ Modes :
       handleChangeTimerMode(h, Host, RoomId, m) =>
         /\ db' = db
         /\ emitted' = NoEvent
         /\ errors' = [to |-> Host, message |-> "Invalid timer mode"]
         /\ pc' = pc]_vars

\* the host has just been told that the mode is invalid
C8_Witness ==
  errors = [to |-> Host, message |-> "Invalid timer mode"] /\ emitted = NoEvent

\* C9: validation goes existence, authorization, operation-specific and only
\* the first failure is reported: a request on a room that does not exist
\* yields room-not-found whoever asks, and a Change Mode request by a
\* non-host with an invalid mode yields the not-host error.
C9_ValidationOrder ==
  [][\A h \in Handlers :
       /\ \A u \in Users :
            AnyRequest(h, u, "r0") =>
              /\ errors' = [to |-> u, message |-> "Room not found"]
              /\ db' = db /\ emitted' = NoEvent /\ pc' = pc
       /\ \A m \in RequestModes \ Modes :
            handleChangeTimerMode(h, Guest, RoomId, m) =>
              errors' = NotHostError(Guest)]_vars

\* the host has just asked for a room that does not exist
C9_Witness ==
  errors = [to |-> Host, message |-> "Room not found"] /\ emitted = NoEvent

\* the configured duration of a mode: the custom setting of the room, or the
\* default when unset
ConfiguredDuration(settings, mode) ==
  LET field == CASE mode = "focus" -> "focusDuration"
                 [] mode = "shortBreak" -> "shortBreakDuration"
                 [] mode = "longBreak" -> "longBreakDuration"
      default == CASE mode = "focus" -> 1500
                   [] mode = "shortBreak" -> 300
                   [] mode = "longBreak" -> 900
  IN IF settings.set /\ settings[field].t = "number"
     THEN settings[field].v ELSE default

\* C10: a host Reset request, from any prior state, sets timeRemaining to
\* the configured duration of the current mode, isRunning to false,
\* startedAt and pausedAt to null, and leaves mode and cycleCount unchanged.
C10_ResetRestoresDuration ==
  \A h \in Handlers :
    (Active(h) /\ req[h].op = "reset") =>
      /\ ~mem[h].castError
      /\ After(h).timeRemaining =
           ConfiguredDuration(loaded[h].timerSettings, Before(h).mode)
      /\ ~After(h).isRunning
      /\ After(h).startedAt = Null
      /\ After(h).pausedAt = Null
      /\ After(h).mode = Before(h).mode
      /\ After(h).cycleCount = Before(h).cycleCount

\* a running timer in a break mode has been reset and persisted
C10_Witness ==
  \E h \in Handlers :
    /\ pc[h] = "saved" /\ req[h].op = "reset"
    /\ Before(h).mode # "focus"
    /\ db = After(h)

\* C11: a host Start request sets isRunning = true and startedAt = now and
\* leaves timeRemaining, mode and cycleCount unchanged; on a timer that is
\* already running the elapsed time is discarded, so the reconciled remaining
\* time right after the Start equals the stored timeRemaining.
C11_StartRebases ==
  \A h \in Handlers :
    (Active(h) /\ req[h].op = "start") =>
      /\ ~mem[h].castError
      /\ After(h).isRunning
      /\ After(h).startedAt = Date(req[h].at)
      /\ After(h).timeRemaining = Before(h).timeRemaining
      /\ After(h).mode = Before(h).mode
      /\ After(h).cycleCount = Before(h).cycleCount
      /\ calculateCurrentTimerState(After(h), req[h].at).timeRemaining =
           Before(h).timeRemaining

\* a timer that has been running for a second is started again and persisted
C11_Witness ==
  \E h \in Handlers :
    /\ pc[h] = "saved" /\ req[h].op = "start"
    /\ Before(h).isRunning
    /\ req[h].at - GetTime(Before(h).startedAt) >= 1000
    /\ db = After(h)

\* C12: a host Complete request leaves mode unchanged and results in
\* isRunning = false, timeRemaining = 0, startedAt = null, pausedAt = null;
\* no operation but Change Mode changes the mode, and the completedMode of
\* the broadcast is the mode before the call.
C12_CompleteStopsKeepsMode ==
  /\ \A h \in Handlers :
       /\ (Active(h) /\ req[h].op = "completed") =>
            /\ ~mem[h].castError
            /\ After(h).mode = Before(h).mode
            /\ ~After(h).isRunning
            /\ After(h).timeRemaining = 0
            /\ After(h).startedAt = Null
            /\ After(h).pausedAt = Null
       /\ (Active(h) /\ req[h].op # "changeMode") =>
            After(h).mode = Before(h).mode
       /\ (pc[h] = "saved" /\ req[h].op = "completed") =>
            Payload("completed", mem[h]).completedMode = Before(h).mode
  /\ emitted.event = "timer-completed" =>
       /\ emitted.payload.completedMode = emitted.payload.timerState.mode
       /\ ~emitted.payload.timerState.isRunning
       /\ emitted.payload.timerState.timeRemaining = 0

\* the completion of a running timer has been persisted
C12_Witness ==
  \E h \in Handlers :
    /\ pc[h] = "saved" /\ req[h].op = "completed"
    /\ Before(h).isRunning /\ Before(h).timeRemaining > 0
    /\ db = After(h)

C14_CycleCountNeverDecreases ==
  [][db'.cycleCount >= db.cycleCount]_vars

\* C18: a host Start that follows a host Pause with nothing in between leaves
\* the timeRemaining that the Pause persisted, and the reconciled remaining
\* time at the instant of the Start equals it, however long the pause
\* lasted; Pause and Start both keep mode and cycleCount.
C18_ResumeLosesNoTime ==
  \A h \in Handlers :
    /\ (/\ Active(h) /\ req[h].op = "start"
        /\ ~Before(h).isRunning /\ Before(h).pausedAt # Null) =>
         /\ After(h).timeRemaining = Before(h).timeRemaining
         /\ calculateCurrentTimerState(After(h), req[h].at).timeRemaining =
              Before(h).timeRemaining
         /\ After(h).pausedAt = Before(h).pausedAt
         /\ After(h).mode = Before(h).mode
         /\ After(h).cycleCount = Before(h).cycleCount
    /\ (Active(h) /\ req[h].op = "pause") =>
         /\ After(h).mode = Before(h).mode
         /\ After(h).cycleCount = Before(h).cycleCount

\* a timer paused for more than a second is started again
C18_Witness ==
  \E h \in Handlers :
    /\ pc[h] = "saved" /\ req[h].op = "start"
    /\ ~Before(h).isRunning /\ Before(h).pausedAt # Null
    /\ req[h].at - GetTime(Before(h).pausedAt) >= 1000
    /\ db = After(h)

\* C19: the timeRemaining persisted by a host Pause is at most the
\* timeRemaining stored before the request, for a running and for a stopped
\* timer and for every client-suggested value.
C19_PauseNeverIncreases ==
  \A h \in Handlers :
    (pc[h] = "saved" /\ req[h].op = "pause") =>
      After(h).timeRemaining <= Before(h).timeRemaining

\* C20: in every reachable persisted state timeRemaining is at most the
\* configured duration of the current mode.
C20_WithinConfiguredDuration ==
  db.timeRemaining <= ConfiguredDuration(timerSettings, db.mode)

\* the remaining time the latest reconciliation returned
ReconciledRemaining == mem["h1"].timerState.timeRemaining

\* C15 as stated: for a running timer the reconciled value is never negative
\* and, as the observation instant advances, strictly decreases or stays
\* at 0; for a timer that is not running the state is returned unchanged;
\* the stored state is never modified.
C15_StrictlyDecreasing ==
  [][/\ db' = db
     /\ ReconciledRemaining' >= 0
     /\ ~db.isRunning => mem'["h1"].timerState = db
     /\ db.isRunning =>
          \/ ReconciledRemaining' < ReconciledRemaining
          \/ ReconciledRemaining' = 0]_vars

\* C15 amended: for a running timer the reconciled value is
\* max(0, timeRemaining - whole seconds elapsed), never negative; as the
\* observation instant advances it never increases, and it strictly
\* decreases or stays at 0 whenever the instant advances by a whole second
\* or more (over a shorter advance it may stay as it is); for a timer that
\* is not running the state is returned unchanged; the stored state is never
\* modified.
C15_NonIncreasing ==
  /\ [](/\ ReconciledRemaining >= 0
        /\ ~db.isRunning => mem["h1"].timerState = db
        /\ db.isRunning =>
             mem["h1"].timerState =
               [db EXCEPT !.timeRemaining =
                  Max(0, @ - (now - GetTime(db.startedAt)) \div 1000)])
  /\ [][/\ db' = db
        /\ db.isRunning =>
             /\ ReconciledRemaining' <= ReconciledRemaining
             /\ now' - now >= 1000 =>
                  \/ ReconciledRemaining' < ReconciledRemaining
                  \/ ReconciledRemaining' = 0]_vars

\* a running timer has run out: more seconds elapsed than were stored
C15_Witness ==
  /\ db.isRunning /\ db.timeRemaining > 0
  /\ (now - GetTime(db.startedAt)) \div 1000 > db.timeRemaining
  /\ ReconciledRemaining = 0

\* the timerState carried by an emission to the room
EmittedTimerState(e) ==
  IF e.event = "timer-completed" THEN e.payload.timerState ELSE e.payload

\* C16: a request emits to the room only after its save, exactly once, and
\* the timerState it emits is the one its save persisted; nothing else is
\* ever emitted to the room.
C16_EmitAfterSave ==
  [][/\ \A h \in Handlers :
          \* the save persists the document and emits nothing
          /\ (pc[h] = "saving" /\ pc'[h] = "saved") =>
               /\ db' = mem[h].timerState
               /\ mem'[h] = mem[h]
               /\ emitted' = NoEvent
          \* a request that did not save emits nothing to the room
          /\ (pc[h] = "saving" /\ pc'[h] = "idle") => emitted' = NoEvent
          \* after the save: one emission, of the persisted document
          /\ pc[h] = "saved" =>
               \/ pc'[h] = "saved" /\ mem'[h] = mem[h] /\ req'[h] = req[h]
               \/ /\ pc'[h] = "idle"
                  /\ emitted' # NoEvent
                  /\ emitted'.room = req[h].roomId
                  /\ EmittedTimerState(emitted') = mem[h].timerState
     /\ emitted' # NoEvent =>
          \E h \in Handlers : pc[h] = "saved" /\ pc'[h] = "idle"]_vars

\* the start of the timer was persisted and then broadcast, a tick later
C16_Witness ==
  /\ emitted.event = "timer-started"
  /\ emitted.payload = db
  /\ now > GetTime(db.startedAt)

\* the number of focus intervals completed once n requests of the protocol
\* have been made
FocusIntervals(n) == (n + 3) \div 4

====
